---- MODULE Spec2Model ----
(***************************************************************************)
(* moy-sekret: profile / key-pair lifecycle and the file envelope          *)
(* encryption pipeline of src/src/lib.rs, as a state machine over a file   *)
(* system.                                                                 *)
(*                                                                         *)
(* A file name is the sequence of its dot-separated segments               *)
(* ("bar.tar.gz" is <<"bar","tar","gz">>, ".cz" is <<"","cz">>), a path is *)
(* <<canonical directory, file name>>.  A file's content is a tagged       *)
(* record: raw bytes, the TOML text of a profile, the base64 text of a key *)
(* or the bincode bytes of a Cipher.  An error is the chain of its         *)
(* messages, outermost first, as AnyError's Display prints it.             *)
(***************************************************************************)
EXTENDS Integers, Sequences, FiniteSets, TLC

VARIABLES
    dirs,      \* the directories that exist (canonical names)
    files,     \* path -> content, for the regular files that exist
    keygens,   \* number of key pairs box_::gen_keypair has drawn
    nonces,    \* number of nonces box_::gen_nonce has drawn
    envlog,    \* history: what each successful encrypt wrote
    envsteps,  \* number of steps the user has taken on the disk directly
    faults,    \* number of I/O calls the system has made fail
    last,      \* the last call: operation, arguments, result
    running    \* the init calls running at the same time, step by step

vars == <<dirs, files, keygens, nonces, envlog, envsteps, faults, last, running>>

\* ------------------------------------------------------------------ bounds
\* The runs explored: those in which the key pairs drawn, the nonces drawn,
\* the user's own steps on the disk and the failed I/O calls number at most
\* MaxEvents together.
MaxEvents == 3

\* ------------------------------------------------------- the world's names
Profiles == {"alice"}

HomeDir == "/home"
WorkDir == "/work"

\* Directory arguments a caller passes, and the directory each denotes.
StorageArgs == {"./vault", "out", "/storage"}
DestArgs == {"out", "work"}

\* A directory the user may not create ("/storage" of the tests).
Unwritable == {"/storage"}

\* Contents of the user's plain files: the empty file and a non-empty one.
Empty == ""
Bytes == {Empty, "B1"}

\* File names: notes.txt, bar.tar.gz and the dot file .cz.
NotesTxt == <<"notes", "txt">>
BarTarGz == <<"bar", "tar", "gz">>
DotCz == <<"", "cz">>

\* ------------------------------------------------------------ file content
Raw(b) == [t |-> "raw", bytes |-> b]

\* toml::to_string(&profile), and toml::from_str on a file's content.
toml_to_string(profile) ==
    [t |-> "toml", name |-> profile.name, storage |-> profile.storage]

toml_from_str(content) ==
    IF content.t = "toml"
    THEN [ok |-> TRUE, profile |-> [name |-> content.name, storage |-> content.storage]]
    ELSE [ok |-> FALSE, profile |-> [name |-> "", storage |-> ""]]

\* BASE64.encode(key), BASE64.decode of a file's content.  The empty file
\* decodes to the empty byte vector; other raw bytes are not base64.
\* A key is 32 bytes: PublicKey::from_slice and SecretKey::from_slice accept
\* exactly that many.
KeyBytes == 32

NoKey == [half |-> "", id |-> 0]

BASE64_encode(key) == [t |-> "b64", key |-> key]

BASE64_decode(content) ==
    IF content.t = "b64" THEN [ok |-> TRUE, len |-> KeyBytes, key |-> content.key]
    ELSE IF content = Raw(Empty) THEN [ok |-> TRUE, len |-> 0, key |-> NoKey]
    ELSE [ok |-> FALSE, len |-> 0, key |-> NoKey]

\* bincode::serialize(cipher), bincode::deserialize of a file's content.
bincode_serialize(cipher) ==
    [t |-> "bin", nonce |-> cipher.nonce, data |-> cipher.data]

bincode_deserialize(content) ==
    IF content.t = "bin"
    THEN [ok |-> TRUE, cipher |-> [nonce |-> content.nonce, data |-> content.data]]
    ELSE [ok |-> FALSE, cipher |-> [nonce |-> 0, data |-> Raw(Empty)]]

\* The value v of a one-element set {v}.  { e : x \in {v} } is e with x bound
\* to the value v, computed once: it is how a `let x = v;` is written below.
Only(S) == CHOOSE x \in S : TRUE

\* ------------------------------------------------------------------ errors
OK == <<>>
IsOk(res) == res = <<>>

\* error(message, reason): the message wraps the chain of its cause.
error(message, reason) == <<message>> \o reason
error_without_parent(message) == <<message>>

IoNotFound == "No such file or directory (os error 2)"
IoPermissionDenied == "Permission denied (os error 13)"
IoNoSpace == "No space left on device (os error 28)"

\* ------------------------------------------------------------- file system
\* The directory a directory argument denotes (the process runs in "/").
Canonical(dir) ==
    CASE dir = "vault" -> "/vault"
      [] dir = "./vault" -> "/vault"
      [] dir = "out" -> "/out"
      [] dir = "work" -> "/work"
      [] dir = "home" -> "/home"
      [] OTHER -> dir

\* Path::is_file on dir/name.
is_file(st, dir, name) == <<Canonical(dir), name>> \in DOMAIN st.files

\* fs::create_dir_all.
create_dir_all(st, dir) ==
    IF Canonical(dir) \in Unwritable
    THEN [res |-> <<IoPermissionDenied>>, st |-> st]
    ELSE [res |-> OK, st |-> [st EXCEPT !.dirs = @ \cup {Canonical(dir)}]]

\* File::create followed by write_all: create truncates, so a failed
\* write_all leaves the file empty.  fault names the call that fails.
WriteFile(st, dir, name, content, fault, createMsg, writeMsg) ==
    LET path == <<Canonical(dir), name>> IN
    IF Canonical(dir) \notin st.dirs
    THEN [res |-> error(createMsg, <<IoNotFound>>), st |-> st]
    ELSE IF fault = "create"
    THEN [res |-> error(createMsg, <<IoPermissionDenied>>), st |-> st]
    ELSE IF fault = "write"
    THEN [res |-> error(writeMsg, <<IoNoSpace>>),
          st |-> [st EXCEPT !.files = (path :> Raw(Empty)) @@ @]]
    ELSE [res |-> OK, st |-> [st EXCEPT !.files = (path :> content) @@ @]]

\* fs::read / fs::read_to_string.
ReadFile(st, dir, name) ==
    IF is_file(st, dir, name)
    THEN [res |-> OK, content |-> st.files[<<Canonical(dir), name>>]]
    ELSE [res |-> <<IoNotFound>>, content |-> Raw(Empty)]

file_exists(st, dir, name) == is_file(st, dir, name)

create_dir_if_not_exists(st, dir) ==
    IF Canonical(dir) \notin st.dirs
    THEN Only({ IF IsOk(r.res) THEN r
                ELSE [res |-> error("Could not create directory", r.res), st |-> st]
                : r \in {create_dir_all(st, dir)} })
    ELSE [res |-> OK, st |-> st]

\* ----------------------------------------------------------------- profile
get_profile_file_name(profile_name) ==
    [dir |-> "home", name |-> <<"", "moy-sekret", profile_name, "toml">>]


\* A profile_file_exists that looks in the working directory, not in home.
profile_file_exists_cwd(st, profile_name) ==
    is_file(st, "work", get_profile_file_name(profile_name).name)

profile_file_exists(st, profile_name) ==
    LET f == get_profile_file_name(profile_name) IN is_file(st, f.dir, f.name)

profile_exists(st, profile_name) == profile_file_exists(st, profile_name)

NoProfile == [name |-> "", storage |-> ""]

read_profile(st, profile_name) ==
    Only({ IF ~IsOk(r.res)
           THEN [res |-> error("Could not read profile", r.res), profile |-> NoProfile]
           ELSE Only({ IF ~p.ok
                       THEN [res |-> error("Could not parse profile file",
                                           <<"toml parse error">>),
                             profile |-> NoProfile]
                       ELSE [res |-> OK, profile |-> p.profile]
                       : p \in {toml_from_str(r.content)} })
           : r \in {ReadFile(st, get_profile_file_name(profile_name).dir,
                             get_profile_file_name(profile_name).name)} })

save_profile(st, profile, f, fault) ==
    WriteFile(st, f.dir, f.name, toml_to_string(profile),
              IF fault = "profile.create" THEN "create"
              ELSE IF fault = "profile.write" THEN "write" ELSE "none",
              "Could not create profile file", "Could not write profile file")

create_profile(st, profile_name, storage_dir, fault) ==
    LET profile == [name |-> profile_name, storage |-> storage_dir] IN
    Only({ IF IsOk(r.res)
           THEN [res |-> OK, st |-> r.st, profile |-> profile]
           ELSE [res |-> error("Could not save profile", r.res), st |-> r.st,
                 profile |-> profile]
           : r \in {save_profile(st, profile, get_profile_file_name(profile_name),
                                 fault)} })

\* ----------------------------------------------------------------- storage
storage_dir_exists(st, storage_dir) == Canonical(storage_dir) \in st.dirs

\* A create_storage_dir that fails on a directory that is already there.
create_storage_dir_not_idempotent(st, storage_dir) ==
    IF storage_dir_exists(st, storage_dir)
    THEN [res |-> error("Could not create storage directory",
                        <<"File exists (os error 17)">>),
          st |-> st]
    ELSE Only({ IF IsOk(r.res) THEN r
                ELSE [res |-> error("Could not create storage directory", r.res),
                      st |-> st]
                : r \in {create_dir_all(st, storage_dir)} })

create_storage_dir(st, storage_dir) ==
    IF storage_dir_exists(st, storage_dir)
    THEN [res |-> OK, st |-> st]
    ELSE Only({ IF IsOk(r.res) THEN r
                ELSE [res |-> error("Could not create storage directory", r.res),
                      st |-> st]
                : r \in {create_dir_all(st, storage_dir)} })


\* An expand_storage_dir that keeps the path as the caller wrote it.
expand_storage_dir_as_given(st, storage_dir, fault) ==
    IF fault = "canonicalize" \/ Canonical(storage_dir) \notin st.dirs
    THEN [res |-> error("Could not expand storage directory", <<IoNotFound>>),
          path |-> ""]
    ELSE [res |-> OK, path |-> storage_dir]

\* PathBuf::canonicalize: the absolute name of an existing directory.
expand_storage_dir(st, storage_dir, fault) ==
    IF fault = "canonicalize" \/ Canonical(storage_dir) \notin st.dirs
    THEN [res |-> error("Could not expand storage directory", <<IoNotFound>>),
          path |-> ""]
    ELSE [res |-> OK, path |-> Canonical(storage_dir)]

\* ---------------------------------------------------------------- key pair

\* A gen_keypair whose generator starts from the same seed in every run.
gen_keypair_same_seed(n) ==
    [pk |-> [half |-> "pk", id |-> 1], sk |-> [half |-> "sk", id |-> 1]]

\* box_::gen_keypair(): the n-th draw is a pair no earlier draw produced.
gen_keypair(n) == [pk |-> [half |-> "pk", id |-> n], sk |-> [half |-> "sk", id |-> n]]

get_key_file_name(profile, key) ==
    [dir |-> profile.storage, name |-> <<profile.name, key>>]

key_file_exists(st, profile, key) ==
    LET f == get_key_file_name(profile, key) IN is_file(st, f.dir, f.name)

keypair_exists(st, profile) ==
    IF ~key_file_exists(st, profile, "pk") THEN FALSE
    ELSE IF ~key_file_exists(st, profile, "sk") THEN FALSE
    ELSE TRUE

\* A save_key that keeps a key file that is already there (create_new).
save_key_keep_existing(st, key, f, fault) ==
    IF is_file(st, f.dir, f.name) THEN [res |-> OK, st |-> st]
    ELSE WriteFile(st, f.dir, f.name, BASE64_encode(key), fault,
                   "Could not create key file", "Could not write key file")

save_key(st, key, f, fault) ==
    WriteFile(st, f.dir, f.name, BASE64_encode(key), fault,
              "Could not create key file", "Could not write key file")

\* A create_keypair that saves the secret key before the public key.
create_keypair_secret_first(st, profile, n, fault) ==
    LET kp == gen_keypair(n) IN
    Only({ IF ~IsOk(r1.res)
           THEN [res |-> error("Could not save secret key file", r1.res), st |-> r1.st]
           ELSE Only({ IF ~IsOk(r2.res)
                       THEN [res |-> error("Could not save public key file", r2.res),
                             st |-> r2.st]
                       ELSE [res |-> OK, st |-> r2.st]
                       : r2 \in {save_key(r1.st, kp.pk, get_key_file_name(profile, "pk"),
                                          IF fault = "pk.create" THEN "create"
                                          ELSE IF fault = "pk.write" THEN "write"
                                          ELSE "none")} })
           : r1 \in {save_key(st, kp.sk, get_key_file_name(profile, "sk"),
                              IF fault = "sk.create" THEN "create"
                              ELSE IF fault = "sk.write" THEN "write" ELSE "none")} })

create_keypair(st, profile, n, fault) ==
    LET kp == gen_keypair(n) IN
    Only({ IF ~IsOk(r1.res)
           THEN [res |-> error("Could not save public key file", r1.res), st |-> r1.st]
           ELSE Only({ IF ~IsOk(r2.res)
                       THEN [res |-> error("Could not save secret key file", r2.res),
                             st |-> r2.st]
                       ELSE [res |-> OK, st |-> r2.st]
                       : r2 \in {save_key(r1.st, kp.sk, get_key_file_name(profile, "sk"),
                                          IF fault = "sk.create" THEN "create"
                                          ELSE IF fault = "sk.write" THEN "write"
                                          ELSE "none")} })
           : r1 \in {save_key(st, kp.pk, get_key_file_name(profile, "pk"),
                              IF fault = "pk.create" THEN "create"
                              ELSE IF fault = "pk.write" THEN "write" ELSE "none")} })


\* A read_key that reads a missing key file as an empty one.
read_key_missing_as_empty(st, f) ==
    Only({ IF ~d.ok
           THEN [res |-> error("Could not decode key file", <<"invalid base64">>),
                 len |-> 0, key |-> NoKey]
           ELSE [res |-> OK, len |-> d.len, key |-> d.key]
           : d \in {BASE64_decode(ReadFile(st, f.dir, f.name).content)} })

read_key(st, f) ==
    Only({ IF ~IsOk(r.res)
           THEN [res |-> error("Could not read key file", r.res), len |-> 0,
                 key |-> NoKey]
           ELSE Only({ IF ~d.ok
                       THEN [res |-> error("Could not decode key file",
                                           <<"invalid base64">>),
                             len |-> 0, key |-> NoKey]
                       ELSE [res |-> OK, len |-> d.len, key |-> d.key]
                       : d \in {BASE64_decode(r.content)} })
           : r \in {ReadFile(st, f.dir, f.name)} })

read_keypair(st, profile) ==
    Only({ IF ~IsOk(rp.res)
           THEN [res |-> error("Could not read public key", rp.res),
                 pk |-> NoKey, sk |-> NoKey]
           ELSE IF rp.len # KeyBytes
           THEN [res |-> error_without_parent("Could not decode public key"),
                 pk |-> NoKey, sk |-> NoKey]
           ELSE Only({ IF ~IsOk(rs.res)
                       THEN [res |-> error("Could not read public key", rs.res),
                             pk |-> NoKey, sk |-> NoKey]
                       ELSE IF rs.len # KeyBytes
                       THEN [res |-> error_without_parent("Could not decode secret key"),
                             pk |-> NoKey, sk |-> NoKey]
                       ELSE [res |-> OK, pk |-> rp.key, sk |-> rs.key]
                       : rs \in {read_key(st, get_key_file_name(profile, "sk"))} })
           : rp \in {read_key(st, get_key_file_name(profile, "pk"))} })

\* -------------------------------------------------------------------- init
InitFaults ==
    {"none", "canonicalize", "profile.create", "profile.write",
     "pk.create", "pk.write", "sk.create", "sk.write"}

\* Whether the call gets as far as box_::gen_keypair().
init_draws(st, profile_name, storage_dir, should_override, fault) ==
    /\ should_override \/ ~profile_exists(st, profile_name)
    /\ IsOk(create_storage_dir(st, storage_dir).res)
    /\ fault \notin {"canonicalize", "profile.create", "profile.write"}

init(st, profile_name, storage_dir, should_override, n, fault) ==
    IF ~should_override /\ profile_exists(st, profile_name)
    THEN [res |-> error_without_parent(
                      "Initialization failed because profile already exists"),
          st |-> st]
    ELSE
    Only({ IF ~IsOk(r1.res)
           THEN [res |-> error("Initialization failed while creating storage for files",
                               r1.res),
                 st |-> r1.st]
           ELSE
    Only({ IF ~IsOk(r2.res)
           THEN [res |-> r2.res, st |-> r1.st]
           ELSE
    Only({ IF ~IsOk(r3.res)
           THEN [res |-> error("Initialization failed while creating profile", r3.res),
                 st |-> r3.st]
           ELSE
    Only({ IF ~IsOk(r4.res)
           THEN [res |-> error("Initialization failed while creating key pair", r4.res),
                 st |-> r4.st]
           ELSE [res |-> OK, st |-> r4.st]
           : r4 \in {create_keypair(r3.st, r3.profile, n, fault)} })
           : r3 \in {create_profile(r1.st, profile_name, r2.path, fault)} })
           : r2 \in {expand_storage_dir(r1.st, storage_dir, fault)} })
           : r1 \in {create_storage_dir(st, storage_dir)} })

\* -------------------------------------------------------------- encryption

\* An ends_with_cz that asks for the extension "cz" (a dot file has none).
ends_with_cz_extension(name) ==
    Len(name) >= 2 /\ name[Len(name)] = "cz" /\ ~(Len(name) = 2 /\ name[1] = "")

\* str::ends_with(".cz") on a path whose last component is name.
ends_with_cz(name) == Len(name) >= 2 /\ name[Len(name)] = "cz"

\* Path::file_name: the last component of the path.
file_name(file) == file.name

\* Path::file_stem: the whole name if it has no dot or only a leading one,
\* else the part before the last dot.
file_stem(file) ==
    LET name == file.name IN
    IF Len(name) = 1 THEN name
    ELSE IF Len(name) = 2 /\ name[1] = "" THEN name
    ELSE SubSeq(name, 1, Len(name) - 1)

get_encrypted_file_name(profile, file) ==
    [dir |-> profile.storage, name |-> Append(file_name(file), "cz")]


\* A get_decrypted_file_name that forgets the destination directory.
get_decrypted_file_name_beside_source(file, dest_dir) ==
    [dir |-> file.dir, name |-> file_stem(file)]

get_decrypted_file_name(file, dest_dir) ==
    [dir |-> dest_dir, name |-> file_stem(file)]


\* A gen_nonce that returns the same nonce in every call.
gen_nonce_constant(n) == 1

\* box_::gen_nonce(): the n-th draw is a nonce no earlier draw produced.
gen_nonce(n) == n

\* The key box_ derives from a public and a secret key: the pair (a, b)
\* and the pair (b, a) derive the same one.
precompute(pk, sk) == {pk.id, sk.id}

\* box_::seal: authenticated encryption of plain under nonce and the key.
box_seal(plain, nonce, pk, sk) ==
    [key |-> precompute(pk, sk), nonce |-> nonce, plain |-> plain, intact |-> TRUE]


\* A box_open that decrypts without verifying the authenticator.
box_open_unverified(data, nonce, pk, sk) == [ok |-> TRUE, plain |-> data.plain]

\* box_::open: the plaintext, if data is an unmodified output of seal under
\* the same nonce and key; nothing otherwise.
box_open(data, nonce, pk, sk) ==
    IF data.intact /\ data.key = precompute(pk, sk) /\ data.nonce = nonce
    THEN [ok |-> TRUE, plain |-> data.plain]
    ELSE [ok |-> FALSE, plain |-> Raw(Empty)]

save_encrypted_file(st, cipher, f, fault) ==
    WriteFile(st, f.dir, f.name, bincode_serialize(cipher), fault,
              "Could not create encrypted file", "Could not write to encrypted file")

encrypt_file(st, profile, file, n, fault) ==
    Only({ IF ~IsOk(kp.res)
           THEN [res |-> error("Could not encrypt file", kp.res), st |-> st]
           ELSE
    Only({ IF ~IsOk(rd.res)
           THEN [res |-> error("Could not read file to encrypt", rd.res), st |-> st]
           ELSE
    Only({ IF ~IsOk(r.res)
           THEN [res |-> error("Could not save encrypted file", r.res), st |-> r.st]
           ELSE [res |-> OK, st |-> r.st]
           : r \in {save_encrypted_file(
                        st,
                        [nonce |-> gen_nonce(n),
                         data |-> box_seal(rd.content, gen_nonce(n), kp.pk, kp.sk)],
                        get_encrypted_file_name(profile, file), fault)} })
           : rd \in {ReadFile(st, file.dir, file.name)} })
           : kp \in {read_keypair(st, profile)} })

\* Whether the call gets as far as box_::gen_nonce().
encrypt_draws(st, profile_name, file, should_override) ==
    /\ ~ends_with_cz(file.name)
    /\ file_exists(st, file.dir, file.name)
    /\ \E rp \in {read_profile(st, profile_name)} :
        /\ IsOk(rp.res)
        /\ \E target \in {get_encrypted_file_name(rp.profile, file)} :
               should_override \/ ~file_exists(st, target.dir, target.name)
        /\ IsOk(read_keypair(st, rp.profile).res)

encrypt(st, profile_name, file, should_override, n, fault) ==
    IF ends_with_cz(file.name)
    THEN [res |-> error_without_parent(
              "Encryption failed because source file was already encrypted by this program (.cz)"),
          st |-> st]
    ELSE IF ~file_exists(st, file.dir, file.name)
    THEN [res |-> error_without_parent(
              "Encryption failed because source file does not exists"),
          st |-> st]
    ELSE
    Only({ IF ~IsOk(rp.res)
           THEN [res |-> error("Encryption failed while reading user profile", rp.res),
                 st |-> st]
           ELSE
    Only({ IF ~should_override /\ file_exists(st, target.dir, target.name)
           THEN [res |-> error_without_parent(
                     "Encryption failed because target file already exists"),
                 st |-> st]
           ELSE
    Only({ IF ~IsOk(r.res)
           THEN [res |-> error("Encryption failed while doing actual encryption", r.res),
                 st |-> r.st]
           ELSE [res |-> OK, st |-> r.st]
           : r \in {encrypt_file(st, rp.profile, file, n, fault)} })
           : target \in {get_encrypted_file_name(rp.profile, file)} })
           : rp \in {read_profile(st, profile_name)} })

\* -------------------------------------------------------------- decryption

\* A save_decrypted_file that creates the file and never writes the data.
save_decrypted_file_never_writes(st, plain_data, f, fault) ==
    Only({ IF ~IsOk(r1.res) THEN r1
           ELSE WriteFile(r1.st, f.dir, f.name, Raw(Empty), fault,
                          "Could not create plain file", "Could not write to plain file")
           : r1 \in {create_dir_if_not_exists(st, f.dir)} })

save_decrypted_file(st, plain_data, f, fault) ==
    Only({ IF ~IsOk(r1.res) THEN r1
           ELSE WriteFile(r1.st, f.dir, f.name, plain_data, fault,
                          "Could not create plain file", "Could not write to plain file")
           : r1 \in {create_dir_if_not_exists(st, f.dir)} })

\* A decrypt_file whose error says when the envelope was sealed under other keys.
decrypt_file_names_cause(st, profile, file, dest_dir, fault) ==
    Only({ IF ~IsOk(kp.res)
           THEN [res |-> error("Could not encrypt file", kp.res), st |-> st]
           ELSE
    Only({ IF ~IsOk(rd.res)
           THEN [res |-> error("Could not read file to decrypt", rd.res), st |-> st]
           ELSE
    Only({ IF ~de.ok
           THEN [res |-> error("Could not deserialize encrypted data",
                               <<"bincode error">>),
                 st |-> st]
           ELSE
    Only({ IF ~op.ok
           THEN [res |-> IF de.cipher.data.key # precompute(kp.pk, kp.sk)
                         THEN error("Could not decrypt file", <<"wrong key pair">>)
                         ELSE error_without_parent("Could not decrypt file"),
                 st |-> st]
           ELSE
    Only({ IF ~IsOk(r.res)
           THEN [res |-> error("Could not save decrypted file", r.res), st |-> r.st]
           ELSE [res |-> OK, st |-> r.st]
           : r \in {save_decrypted_file(st, op.plain,
                                        get_decrypted_file_name(file, dest_dir), fault)} })
           : op \in {box_open(de.cipher.data, de.cipher.nonce, kp.pk, kp.sk)} })
           : de \in {bincode_deserialize(rd.content)} })
           : rd \in {ReadFile(st, file.dir, file.name)} })
           : kp \in {read_keypair(st, profile)} })

decrypt_file(st, profile, file, dest_dir, fault) ==
    Only({ IF ~IsOk(kp.res)
           THEN [res |-> error("Could not encrypt file", kp.res), st |-> st]
           ELSE
    Only({ IF ~IsOk(rd.res)
           THEN [res |-> error("Could not read file to decrypt", rd.res), st |-> st]
           ELSE
    Only({ IF ~de.ok
           THEN [res |-> error("Could not deserialize encrypted data",
                               <<"bincode error">>),
                 st |-> st]
           ELSE
    Only({ IF ~op.ok
           THEN [res |-> error_without_parent("Could not decrypt file"), st |-> st]
           ELSE
    Only({ IF ~IsOk(r.res)
           THEN [res |-> error("Could not save decrypted file", r.res), st |-> r.st]
           ELSE [res |-> OK, st |-> r.st]
           : r \in {save_decrypted_file(st, op.plain,
                                        get_decrypted_file_name(file, dest_dir), fault)} })
           : op \in {box_open(de.cipher.data, de.cipher.nonce, kp.pk, kp.sk)} })
           : de \in {bincode_deserialize(rd.content)} })
           : rd \in {ReadFile(st, file.dir, file.name)} })
           : kp \in {read_keypair(st, profile)} })

decrypt(st, profile_name, file, dest_dir, should_override, fault) ==
    IF ~ends_with_cz(file.name)
    THEN [res |-> error_without_parent(
              "Decryption failed because source file was not made by this program (.cz)"),
          st |-> st]
    ELSE IF ~file_exists(st, file.dir, file.name)
    THEN [res |-> error_without_parent(
              "Decryption failed because source file does not exists"),
          st |-> st]
    ELSE
    Only({ IF ~should_override /\ file_exists(st, target.dir, target.name)
           THEN [res |-> error_without_parent(
                     "Decryption failed because target file already exists"),
                 st |-> st]
           ELSE
    Only({ IF ~IsOk(rp.res)
           THEN [res |-> error("Decryption failed while reading user profile", rp.res),
                 st |-> st]
           ELSE
    Only({ IF ~IsOk(r.res)
           THEN [res |-> error("Decryption failed while doing actual decryption", r.res),
                 st |-> r.st]
           ELSE [res |-> OK, st |-> r.st]
           : r \in {decrypt_file(st, rp.profile, file, dest_dir, fault)} })
           : rp \in {read_profile(st, profile_name)} })
           : target \in {get_decrypted_file_name(file, dest_dir)} })

\* ------------------------------------------------------------------- state
Events == keygens + nonces + envsteps + faults

Disk == [dirs |-> dirs, files |-> files]

NoCall ==
    [op |-> "none", profile |-> "", dir |-> "", name |-> <<>>, dest |-> "",
     override |-> FALSE, res |-> OK]

Idle == last.op = "none"

\* The file arguments a caller passes: the files on disk and three that are not.
GhostTxt == <<"ghost", "txt">>
GhostCz == <<"ghost", "txt", "cz">>
FileArgs ==
    {[dir |-> p[1], name |-> p[2]] : p \in {q \in DOMAIN files : files[q].t \in {"raw", "bin"}}}
        \cup {[dir |-> WorkDir, name |-> GhostTxt], [dir |-> WorkDir, name |-> GhostCz],
              [dir |-> WorkDir, name |-> DotCz]}

WriteFaults == {"none", "create", "write"}

\* No init call is under way step by step: each run is one step.
NoRunning == [call |-> <<>>, writer |-> [pk |-> 0, sk |-> 0]]

Init ==
    /\ dirs = {HomeDir, WorkDir}
    /\ files = (<<WorkDir, NotesTxt>> :> Raw("B1")) @@ (<<WorkDir, BarTarGz>> :> Raw(Empty))
    /\ keygens = 0
    /\ nonces = 0
    /\ envlog = {}
    /\ envsteps = 0
    /\ faults = 0
    /\ last = NoCall
    /\ running = NoRunning

\* One run of the program: `init --profile p --dir d [--override]`.
\* fault is the I/O call the system makes fail in this run, if any; a run
\* that never gets to that call is the run without the fault.
DoInit ==
    /\ Idle
    /\ \E p \in Profiles, d \in StorageArgs, ov \in BOOLEAN, fault \in InitFaults :
       \E st \in {Disk} :
       \E r0 \in {init(st, p, d, ov, keygens + 1, "none")} :
       \E r \in {IF fault = "none" THEN r0 ELSE init(st, p, d, ov, keygens + 1, fault)} :
       \E draws \in {init_draws(st, p, d, ov, fault)} :
            /\ fault # "none" => r.res # r0.res
            /\ Events + (IF draws THEN 1 ELSE 0) + (IF fault # "none" THEN 1 ELSE 0)
                   <= MaxEvents
            /\ dirs' = r.st.dirs
            /\ files' = r.st.files
            /\ keygens' = IF draws THEN keygens + 1 ELSE keygens
            /\ faults' = IF fault # "none" THEN faults + 1 ELSE faults
            /\ last' = [op |-> "init", profile |-> p, dir |-> d, name |-> <<>>,
                        dest |-> "", override |-> ov, res |-> r.res]
            /\ UNCHANGED <<nonces, envlog, envsteps, running>>

\* One run of the program: `encrypt --profile p --file f [--override]`.
DoEncrypt ==
    /\ Idle
    /\ \E p \in Profiles, f \in FileArgs, ov \in BOOLEAN, fault \in WriteFaults :
       \E st \in {Disk} :
       \E r0 \in {encrypt(st, p, f, ov, nonces + 1, "none")} :
       \E r \in {IF fault = "none" THEN r0 ELSE encrypt(st, p, f, ov, nonces + 1, fault)} :
       \E draws \in {encrypt_draws(st, p, f, ov)} :
       \E target \in {get_encrypted_file_name(read_profile(st, p).profile, f)} :
       \E path \in {<<Canonical(target.dir), target.name>>} :
            /\ fault # "none" => r.res # r0.res
            /\ Events + (IF draws THEN 1 ELSE 0) + (IF fault # "none" THEN 1 ELSE 0)
                   <= MaxEvents
            /\ dirs' = r.st.dirs
            /\ files' = r.st.files
            /\ nonces' = IF draws THEN nonces + 1 ELSE nonces
            /\ faults' = IF fault # "none" THEN faults + 1 ELSE faults
            /\ envlog' = IF IsOk(r.res)
                         THEN envlog \cup
                              {[seq |-> Cardinality(envlog) + 1, profile |-> p,
                                target |-> path, content |-> r.st.files[path],
                                plain |-> files[<<Canonical(f.dir), f.name>>]]}
                         ELSE envlog
            /\ last' = [op |-> "encrypt", profile |-> p, dir |-> f.dir, name |-> f.name,
                        dest |-> "", override |-> ov, res |-> r.res]
            /\ UNCHANGED <<keygens, envsteps, running>>

\* One run of the program: `decrypt --profile p --file f --dest x [--override]`.
DoDecrypt ==
    /\ Idle
    /\ \E p \in Profiles, f \in FileArgs, x \in DestArgs, ov \in BOOLEAN,
          fault \in WriteFaults :
       \E st \in {Disk} :
       \E r0 \in {decrypt(st, p, f, x, ov, "none")} :
       \E r \in {IF fault = "none" THEN r0 ELSE decrypt(st, p, f, x, ov, fault)} :
            /\ fault # "none" => r.res # r0.res
            /\ Events + (IF fault # "none" THEN 1 ELSE 0) <= MaxEvents
            /\ dirs' = r.st.dirs
            /\ files' = r.st.files
            /\ faults' = IF fault # "none" THEN faults + 1 ELSE faults
            /\ last' = [op |-> "decrypt", profile |-> p, dir |-> f.dir, name |-> f.name,
                        dest |-> x, override |-> ov, res |-> r.res]
            /\ UNCHANGED <<keygens, nonces, envlog, envsteps, running>>

\* The process exits with its result; the next run starts afresh.
Exit ==
    /\ ~Idle
    /\ last' = NoCall
    /\ UNCHANGED <<dirs, files, keygens, nonces, envlog, envsteps, faults, running>>

\* ------------------------------------------------- the user, on the disk
\* The user deletes one key file of a profile.
DeleteKey ==
    \E p \in Profiles, key \in {"pk", "sk"} :
        \E rp \in {read_profile(Disk, p)} :
        \E f \in {get_key_file_name(rp.profile, key)} :
            /\ Idle /\ Events < MaxEvents
            /\ IsOk(rp.res)
            /\ is_file(Disk, f.dir, f.name)
            /\ files' = [q \in DOMAIN files \ {<<Canonical(f.dir), f.name>>} |-> files[q]]
            /\ envsteps' = envsteps + 1
            /\ UNCHANGED <<dirs, keygens, nonces, envlog, faults, last, running>>

\* A nonce gen_nonce never returns, standing for a nonce with bits flipped.
Flipped(nonce) == 0 - nonce

\* Somebody changes the nonce or the ciphertext of an envelope on disk.
Tamper ==
    \E q \in DOMAIN files, what \in {"nonce", "data"} :
        /\ Idle /\ Events < MaxEvents
        /\ files[q].t = "bin"
        /\ files' = [files EXCEPT ![q] =
                        IF what = "nonce"
                        THEN [@ EXCEPT !.nonce = Flipped(@)]
                        ELSE [@ EXCEPT !.data.intact = FALSE]]
        /\ files[q] # files'[q]
        /\ envsteps' = envsteps + 1
        /\ UNCHANGED <<dirs, keygens, nonces, envlog, faults, last, running>>

\* The user copies an envelope: over another envelope, or to the name ".cz"
\* in the same directory.
CopyFile ==
    \E q \in DOMAIN files, to \in DOMAIN files \cup {<<d, DotCz>> : d \in dirs} :
        /\ Idle /\ Events < MaxEvents
        /\ files[q].t = "bin"
        /\ to \notin DOMAIN files => to[1] = q[1]
        /\ to \in DOMAIN files => files[to].t = "bin" /\ files[to] # files[q]
        /\ files' = (to :> files[q]) @@ files
        /\ envsteps' = envsteps + 1
        /\ UNCHANGED <<dirs, keygens, nonces, envlog, faults, last, running>>

Next ==
    \/ DoInit
    \/ DoEncrypt
    \/ DoDecrypt
    \/ Exit
    \/ DeleteKey
    \/ Tamper
    \/ CopyFile

Spec == Init /\ [][Next]_vars

\* The user keeps a file of their own named alice.pk in the working directory.
UserKeyFile == <<WorkDir, <<"alice", "pk">>>>

InitUserKeyFile ==
    /\ dirs = {HomeDir, WorkDir}
    /\ files = (UserKeyFile :> Raw("B1"))
    /\ keygens = 0
    /\ nonces = 0
    /\ envlog = {}
    /\ envsteps = 0
    /\ faults = 0
    /\ last = NoCall
    /\ running = NoRunning

SpecUserKeyFile == InitUserKeyFile /\ [][Next]_vars

\* ------------------------------------------- two init calls at the same time
\* Two processes run init for the same profile and storage directory.  Each
\* takes the steps of init one at a time: the guard, create_storage_dir,
\* expand_storage_dir, then for the record, the public key and the secret key
\* File::create followed by write_all, with gen_keypair before the key files.
Calls == {1, 2}
ConcurrentProfile == "alice"
ConcurrentDir == "./vault"

NoKeyPair == [pk |-> NoKey, sk |-> NoKey]

InitConcurrent ==
    /\ dirs = {HomeDir, WorkDir}
    /\ files = (<<WorkDir, NotesTxt>> :> Raw("B1"))
    /\ keygens = 0
    /\ nonces = 0
    /\ envlog = {}
    /\ envsteps = 0
    /\ faults = 0
    /\ last = NoCall
    /\ \E ov \in [Calls -> BOOLEAN] :
         running = [call |-> [i \in Calls |->
                                [pc |-> "guard", override |-> ov[i], storage |-> "",
                                 kp |-> NoKeyPair, res |-> OK]],
                    writer |-> [pk |-> 0, sk |-> 0]]

At(i, pc) == running.call[i].pc = pc

\* if !should_override { if profile_exists(..) { return error } }
CGuard(i) ==
    /\ At(i, "guard")
    /\ running' =
         IF ~running.call[i].override /\ profile_exists(Disk, ConcurrentProfile)
         THEN [running EXCEPT !.call[i].pc = "failed",
                              !.call[i].res = error_without_parent(
                                  "Initialization failed because profile already exists")]
         ELSE [running EXCEPT !.call[i].pc = "mkdir"]
    /\ UNCHANGED <<dirs, files, keygens, nonces, envlog, envsteps, faults, last>>

CCreateStorageDir(i) ==
    /\ At(i, "mkdir")
    /\ \E r \in {create_storage_dir(Disk, ConcurrentDir)} :
         /\ dirs' = r.st.dirs
         /\ running' = [running EXCEPT !.call[i].pc = "expand"]
    /\ UNCHANGED <<files, keygens, nonces, envlog, envsteps, faults, last>>

CExpandStorageDir(i) ==
    /\ At(i, "expand")
    /\ \E r \in {expand_storage_dir(Disk, ConcurrentDir, "none")} :
         running' = [running EXCEPT !.call[i].pc = "profile.create",
                                    !.call[i].storage = r.path]
    /\ UNCHANGED <<dirs, files, keygens, nonces, envlog, envsteps, faults, last>>

\* The profile value the call holds after create_profile built it.
ProfileOf(i) == [name |-> ConcurrentProfile, storage |-> running.call[i].storage]

\* box_::gen_keypair() at the start of create_keypair.
CGenKeypair(i) ==
    /\ At(i, "keygen")
    /\ keygens' = keygens + 1
    /\ running' = [running EXCEPT !.call[i].pc = "pk.create",
                                  !.call[i].kp = gen_keypair(keygens + 1)]
    /\ UNCHANGED <<dirs, files, nonces, envlog, envsteps, faults, last>>

\* The disk after the call's save of the file it is at, up to File::create
\* (upto = "create": the file is there and empty) or to the end of write_all.
Saved(i, file, upto) ==
    IF file = "profile"
    THEN save_profile(Disk, ProfileOf(i), get_profile_file_name(ConcurrentProfile),
                      IF upto = "create" THEN "profile.write" ELSE "none").st
    ELSE save_key(Disk, running.call[i].kp[file], get_key_file_name(ProfileOf(i), file),
                  IF upto = "create" THEN "write" ELSE "none").st

\* File::create(file_path) of save_profile or save_key.
CCreateFile(i) ==
    \E file \in {"profile", "pk", "sk"} :
        /\ At(i, file \o ".create")
        /\ files' = Saved(i, file, "create").files
        /\ running' = [running EXCEPT !.call[i].pc = file \o ".write"]
        /\ UNCHANGED <<dirs, keygens, nonces, envlog, envsteps, faults, last>>

\* file.write_all(..) of save_profile or save_key.
CWriteFile(i) ==
    \E file \in {"profile", "pk", "sk"} :
        /\ At(i, file \o ".write")
        /\ files' = Saved(i, file, "write").files
        /\ running' =
             IF file = "profile" THEN [running EXCEPT !.call[i].pc = "keygen"]
             ELSE IF file = "pk"
             THEN [running EXCEPT !.call[i].pc = "sk.create", !.writer.pk = i]
             ELSE [running EXCEPT !.call[i].pc = "done", !.writer.sk = i]
        /\ UNCHANGED <<dirs, keygens, nonces, envlog, envsteps, faults, last>>

NextConcurrent ==
    \E i \in Calls :
        \/ CGuard(i)
        \/ CCreateStorageDir(i)
        \/ CExpandStorageDir(i)
        \/ CGenKeypair(i)
        \/ CCreateFile(i)
        \/ CWriteFile(i)

SpecConcurrentInit == InitConcurrent /\ [][NextConcurrent]_vars

\* ================================================================== claims
RecordPath(p) == <<HomeDir, <<"", "moy-sekret", p, "toml">>>>
KeyPath(dir, p, key) == <<dir, <<p, key>>>>
FileOf(q) == [dir |-> q[1], name |-> q[2]]

\* A step that is one run of the program.
Call(op) == last.op = "none" /\ last'.op = op

ProfileAlreadyExists == <<"Initialization failed because profile already exists">>

\* C1: init without override, called while a profile record for the profile
\* exists, fails with "profile already exists" and changes nothing on disk:
\* directories and files (record, key files, everything else) are as before.
C1_InitRefusedOnExistingProfile ==
    [][(Call("init") /\ ~last'.override /\ RecordPath(last'.profile) \in DOMAIN files)
          => (last'.res = ProfileAlreadyExists /\ files' = files /\ dirs' = dirs)]_vars

C1_Witness ==
    /\ last.op = "init" /\ ~last.override /\ last.res = ProfileAlreadyExists
    /\ files[RecordPath(last.profile)].t = "toml"
    /\ KeyPath("/vault", last.profile, "pk") \in DOMAIN files
    /\ KeyPath("/vault", last.profile, "sk") \in DOMAIN files

\* The envelopes encrypt has written so far.
Written == {e.content : e \in envlog}

\* C2: init with override on an existing profile is not refused and, its I/O
\* working, succeeds; when it succeeds both key files hold one freshly drawn
\* pair, different from every key on disk before, and decrypt of every
\* envelope written before it fails, for every destination and override flag.
C2_OverrideReplacesKeyPair ==
    [][(Call("init") /\ last'.override /\ RecordPath(last'.profile) \in DOMAIN files)
          => /\ (faults' = faults /\ Canonical(last'.dir) \notin Unwritable)
                    => IsOk(last'.res)
             /\ IsOk(last'.res) =>
                  /\ keygens' = keygens + 1
                  /\ files'[KeyPath(Canonical(last'.dir), last'.profile, "pk")]
                         = BASE64_encode([half |-> "pk", id |-> keygens'])
                  /\ files'[KeyPath(Canonical(last'.dir), last'.profile, "sk")]
                         = BASE64_encode([half |-> "sk", id |-> keygens'])
                  /\ \A q \in DOMAIN files :
                         files[q].t = "b64" =>
                             files[q] # files'[KeyPath(Canonical(last'.dir), last'.profile,
                                                      files[q].key.half)]
                  /\ \A q \in DOMAIN files' :
                         files'[q] \in Written =>
                             \A x \in DestArgs, ov \in BOOLEAN :
                                 ~IsOk(decrypt(Disk', last'.profile, FileOf(q), x, ov,
                                               "none").res)]_vars

C2_Witness ==
    /\ last.op = "init" /\ last.override /\ IsOk(last.res) /\ keygens = 2
    /\ \E q \in DOMAIN files : files[q] \in Written /\ ends_with_cz(q[2])

\* C3: after an init that returns success the profile exists, its record
\* holds the profile name and, as its one storage directory, the canonical
\* absolute form of the directory of this init, and both key files
\* <storage>/<name>.pk and <storage>/<name>.sk exist.
C3_InitSuccessLeavesProfileAndKeys ==
    (last.op = "init" /\ IsOk(last.res)) =>
        /\ profile_exists(Disk, last.profile)
        /\ RecordPath(last.profile) \in DOMAIN files
        /\ files[RecordPath(last.profile)]
               = toml_to_string([name |-> last.profile, storage |-> Canonical(last.dir)])
        /\ read_profile(Disk, last.profile).profile
               = [name |-> last.profile, storage |-> Canonical(last.dir)]
        /\ keypair_exists(Disk, read_profile(Disk, last.profile).profile)
        /\ KeyPath(Canonical(last.dir), last.profile, "pk") \in DOMAIN files
        /\ KeyPath(Canonical(last.dir), last.profile, "sk") \in DOMAIN files

C3_Witness ==
    /\ last.op = "init" /\ IsOk(last.res) /\ last.override /\ last.dir = "./vault"
    /\ files[RecordPath(last.profile)].storage = "/vault"
    /\ KeyPath("/out", last.profile, "pk") \in DOMAIN files

\* The file a run of encrypt or decrypt is given, and what it holds.
SourcePath(call) == <<Canonical(call.dir), call.name>>

\* A name with its final ".cz" removed.
StripCz(name) == SubSeq(name, 1, Len(name) - 1)
HasCzSuffix(name) == Len(name) > 1 /\ name[Len(name)] = "cz"

\* C4: round trip.  When decrypt succeeds on <storage>/basename(F).cz while
\* that file holds what a successful encrypt of F for the same profile wrote
\* there, the file X/basename(F) exists and holds, byte for byte, the content
\* B that F had when it was encrypted (B empty included).
C4_RoundTrip ==
    \A e \in envlog :
        (/\ last.op = "decrypt" /\ IsOk(last.res)
         /\ last.profile = e.profile
         /\ SourcePath(last) = e.target
         /\ e.target \in DOMAIN files /\ files[e.target] = e.content)
        => /\ <<Canonical(last.dest), StripCz(last.name)>> \in DOMAIN files
           /\ files[<<Canonical(last.dest), StripCz(last.name)>>] = e.plain

C4_Witness ==
    \E e \in envlog :
        /\ last.op = "decrypt" /\ IsOk(last.res) /\ last.profile = e.profile
        /\ SourcePath(last) = e.target /\ files[e.target] = e.content
        /\ e.plain = Raw(Empty)
        /\ files[<<Canonical(last.dest), StripCz(last.name)>>] = Raw(Empty)

\* The last envelope encrypt wrote to path q.
WrittenTo(q) == {e \in envlog : e.target = q}
LatestAt(q) == CHOOSE e \in WrittenTo(q) : \A e2 \in WrittenTo(q) : e2.seq <= e.seq

\* The file at q is an envelope whose nonce or ciphertext differs from what
\* encrypt wrote there.
Differs(q) ==
    /\ q \in DOMAIN files /\ files[q].t = "bin"
    /\ WrittenTo(q) # {}
    /\ files[q] # LatestAt(q).content

AuthenticationFailed ==
    <<"Decryption failed while doing actual decryption", "Could not decrypt file">>

\* The target a run of decrypt computes is free or may be overridden, and the
\* profile record and both keys can be read: the run gets to box_::open.
DecryptReachesOpen(call) ==
    /\ HasCzSuffix(call.name)
    /\ SourcePath(call) \in DOMAIN files
    /\ call.override
         \/ <<Canonical(call.dest), file_stem(call)>> \notin DOMAIN files
    /\ IsOk(read_profile(Disk, call.profile).res)
    /\ IsOk(read_keypair(Disk, read_profile(Disk, call.profile).profile).res)

\* C5 as claimed: decrypt of an envelope whose nonce or ciphertext differs
\* from what encrypt wrote fails with AuthenticationFailed and writes nothing.
C5_TamperDetection_AsClaimed ==
    [][(Call("decrypt") /\ Differs(SourcePath(last')))
          => (last'.res = AuthenticationFailed /\ files' = files /\ dirs' = dirs)]_vars

\* C5, amended: decrypt of a stored envelope whose nonce or ciphertext was
\* changed into something encrypt never wrote fails, writes no file and
\* creates no directory; the failure is AuthenticationFailed whenever the run
\* gets to box_::open.
C5_TamperDetection ==
    [][(Call("decrypt") /\ Differs(SourcePath(last'))
            /\ files[SourcePath(last')] \notin Written)
          => /\ ~IsOk(last'.res)
             /\ files' = files /\ dirs' = dirs
             /\ DecryptReachesOpen(last') => last'.res = AuthenticationFailed]_vars

C5_Witness ==
    /\ last.op = "decrypt" /\ last.res = AuthenticationFailed
    /\ Differs(SourcePath(last)) /\ files[SourcePath(last)] \notin Written
    /\ Canonical(last.dest) \notin dirs
    /\ <<Canonical(last.dest), file_stem(last)>> \notin DOMAIN files

\* C6: no two envelopes written by successful encrypt calls carry the same
\* nonce, whatever the key pair, the plaintext and the target.
C6_NonceUniqueness ==
    \A a, b \in envlog : a.seq # b.seq => a.content.nonce # b.content.nonce

C6_Witness ==
    \E a, b \in envlog :
        /\ a.seq # b.seq /\ a.plain = b.plain /\ a.target = b.target
        /\ a.content.data.key = b.content.data.key
        /\ a.content.nonce # b.content.nonce
        /\ last.op = "encrypt" /\ last.override /\ IsOk(last.res)

EncryptTargetExists == <<"Encryption failed because target file already exists">>
DecryptTargetExists == <<"Decryption failed because target file already exists">>

\* The storage directory the profile record on disk names.
StorageOf(p) == files[RecordPath(p)].storage
HasRecord(p) == RecordPath(p) \in DOMAIN files /\ files[RecordPath(p)].t = "toml"

\* C7: a run of encrypt or decrypt without override that computes its target
\* path and finds a file there fails with "target file already exists"; and
\* no run without override changes or removes any file that existed.
C7_NoOverwriteWithoutOverride ==
    [][/\ (Call("encrypt") /\ ~last'.override /\ ~HasCzSuffix(last'.name)
              /\ SourcePath(last') \in DOMAIN files /\ HasRecord(last'.profile)
              /\ <<StorageOf(last'.profile), Append(last'.name, "cz")>> \in DOMAIN files)
          => last'.res = EncryptTargetExists
       /\ (Call("decrypt") /\ ~last'.override /\ HasCzSuffix(last'.name)
              /\ SourcePath(last') \in DOMAIN files
              /\ <<Canonical(last'.dest), file_stem(last')>> \in DOMAIN files)
          => last'.res = DecryptTargetExists
       /\ ((Call("encrypt") \/ Call("decrypt")) /\ ~last'.override)
          => \A q \in DOMAIN files : q \in DOMAIN files' /\ files'[q] = files[q]]_vars

C7_Witness ==
    /\ last.op = "decrypt" /\ ~last.override /\ last.res = DecryptTargetExists
    /\ last.dest = "work"
    /\ files[<<WorkDir, file_stem(last)>>] = Raw("B1")
    /\ \E e \in envlog : e.target = SourcePath(last) /\ files[e.target] = e.content

AlreadyEncrypted ==
    <<"Encryption failed because source file was already encrypted by this program (.cz)">>
NotAnEnvelope ==
    <<"Decryption failed because source file was not made by this program (.cz)">>

\* C8: encrypt of a path ending in ".cz" fails with AlreadyEncrypted and
\* decrypt of a path not ending in ".cz" fails with NotAnEnvelope, whatever
\* the override flag and whether or not source, profile or target exist; the
\* run writes nothing.
C8_ExtensionGuard ==
    [][/\ (Call("encrypt") /\ HasCzSuffix(last'.name))
          => (last'.res = AlreadyEncrypted /\ files' = files /\ dirs' = dirs)
       /\ (Call("decrypt") /\ ~HasCzSuffix(last'.name))
          => (last'.res = NotAnEnvelope /\ files' = files /\ dirs' = dirs)]_vars

C8_Witness ==
    /\ last.op = "encrypt" /\ last.name = DotCz /\ last.override
    /\ last.res = AlreadyEncrypted
    /\ SourcePath(last) \in DOMAIN files
    /\ HasRecord(last.profile)

\* A key file of the profile is missing from its storage directory, and a key
\* file still there holds the key init wrote.
KeyMissing(p) ==
    /\ HasRecord(p)
    /\ \E key \in {"pk", "sk"} : KeyPath(StorageOf(p), p, key) \notin DOMAIN files
    /\ \A key \in {"pk", "sk"} :
          KeyPath(StorageOf(p), p, key) \in DOMAIN files
          => files[KeyPath(StorageOf(p), p, key)].t = "b64"

IsNotFound(res) == ~IsOk(res) /\ res[Len(res)] = IoNotFound

\* An error of kind NotFound: a missing file down the chain, or a missing source.
NotFoundKind(res) ==
    \/ IsNotFound(res)
    \/ res = <<"Encryption failed because source file does not exists">>
    \/ res = <<"Decryption failed because source file does not exists">>

\* The run gets past the guards that come before the key pair is read.
ReachesKeyRead(call) ==
    \/ /\ call.op = "encrypt"
       /\ ~HasCzSuffix(call.name) /\ SourcePath(call) \in DOMAIN files
       /\ call.override
            \/ <<StorageOf(call.profile), Append(call.name, "cz")>> \notin DOMAIN files
    \/ /\ call.op = "decrypt"
       /\ HasCzSuffix(call.name) /\ SourcePath(call) \in DOMAIN files
       /\ call.override
            \/ <<Canonical(call.dest), file_stem(call)>> \notin DOMAIN files

\* C9 as claimed: with a key file of the profile missing, every encrypt or
\* decrypt for the profile returns an error of kind NotFound and writes no file.
C9_MissingKey_AsClaimed ==
    [][((Call("encrypt") \/ Call("decrypt")) /\ KeyMissing(last'.profile))
          => (NotFoundKind(last'.res) /\ files' = files)]_vars

\* C9, amended: with a key file of the profile missing, every encrypt or
\* decrypt for the profile returns an error and writes nothing; the error is
\* the NotFound of the key file whenever the run gets past the guards that
\* precede the key read (extension, source present, target free or override).
C9_MissingKey ==
    [][((Call("encrypt") \/ Call("decrypt")) /\ KeyMissing(last'.profile))
          => /\ ~IsOk(last'.res)
             /\ files' = files /\ dirs' = dirs
             /\ ReachesKeyRead(last') =>
                  /\ IsNotFound(last'.res)
                  /\ last'.res[Len(last'.res) - 1] = "Could not read key file"]_vars

C9_Witness ==
    /\ last.op = "decrypt" /\ IsNotFound(last.res) /\ Len(last.res) = 5
    /\ KeyMissing(last.profile)
    /\ KeyPath(StorageOf(last.profile), last.profile, "pk") \in DOMAIN files
    /\ envsteps = 1
    /\ files[SourcePath(last)] \in Written

\* The step writes the file at path t and touches no other file.
WritesExactly(t) ==
    /\ t \in DOMAIN files'
    /\ DOMAIN files' = DOMAIN files \cup {t}
    /\ \A q \in DOMAIN files : q # t => files'[q] = files[q]

\* C10 as claimed: a successful encrypt of F writes D/basename(F).cz, D the
\* profile's storage directory; a successful decrypt of E into X writes
\* X/<basename(E) with its final ".cz" removed>.
C10_NamingTransform_AsClaimed ==
    [][/\ (Call("encrypt") /\ IsOk(last'.res))
          => WritesExactly(<<StorageOf(last'.profile), Append(last'.name, "cz")>>)
       /\ (Call("decrypt") /\ IsOk(last'.res))
          => WritesExactly(<<Canonical(last'.dest), StripCz(last'.name)>>)]_vars

\* C11 as claimed: profile_exists(P) is true exactly when the record file of P
\* is present and parses; so whenever profile_exists(P) is true read_profile(P)
\* succeeds, and a record that is present but does not parse makes it false.
C11_ExistsIffRecordParses_AsClaimed ==
    \A p \in Profiles : profile_exists(Disk, p) <=> IsOk(read_profile(Disk, p).res)

\* init failed at the write of the secret key, after the public key was written.
SecretKeyWriteFailed(res) ==
    /\ Len(res) >= 2
    /\ res[1] = "Initialization failed while creating key pair"
    /\ res[2] = "Could not save secret key file"

\* The two key files of the profile hold the two halves of one generated pair.
CompletePair(p) ==
    /\ HasRecord(p)
    /\ \A key \in {"pk", "sk"} :
          /\ KeyPath(StorageOf(p), p, key) \in DOMAIN files
          /\ files[KeyPath(StorageOf(p), p, key)].t = "b64"
          /\ files[KeyPath(StorageOf(p), p, key)].key.half = key
    /\ files[KeyPath(StorageOf(p), p, "pk")].key.id
         = files[KeyPath(StorageOf(p), p, "sk")].key.id

\* C12 as claimed: after an init whose public-key write succeeds and whose
\* secret-key write fails, on first init or with override over an existing
\* pair, keypair_exists for the profile is false; and keypair_exists is true
\* only when both files of one complete pair are present.
C12_PartialKeyWriteDetectable_AsClaimed ==
    [][/\ (Call("init") /\ SecretKeyWriteFailed(last'.res))
          => ~keypair_exists(Disk', read_profile(Disk', last'.profile).profile)
       /\ \A p \in Profiles :
            (HasRecord(p) /\ keypair_exists(Disk, read_profile(Disk, p).profile))
            => CompletePair(p)]_vars

\* The step of init an error comes from: the outermost message of its chain.
FailedAt(res, message) == Len(res) >= 1 /\ res[1] = message

StorageCreationFailed ==
    <<"Initialization failed while creating storage for files",
      "Could not create storage directory", IoPermissionDenied>>

\* The file at q is as it was before the step.
Untouched(q) ==
    /\ q \in DOMAIN files <=> q \in DOMAIN files'
    /\ q \in DOMAIN files => files'[q] = files[q]

\* After the step the file at q holds the half of the pair drawn in this run.
HoldsNewKey(q, half) ==
    /\ q \in DOMAIN files'
    /\ files'[q] = BASE64_encode([half |-> half, id |-> keygens'])
    /\ keygens' = keygens + 1

\* C13: init runs existence guard, storage-directory creation, path
\* canonicalization, record write, public-key write, secret-key write in that
\* order and stops at the first that fails: an error from one step comes with
\* the effects of the steps before it and with no effect of a later step.
\* When the storage directory cannot be created the error is
\* StorageCreationFailed and neither files nor directories change.
C13_InitStepOrder ==
    [][Call("init") =>
         \E res \in {last'.res}, D \in {Canonical(last'.dir)} :
         \E rec \in {RecordPath(last'.profile)},
            pk \in {KeyPath(D, last'.profile, "pk")},
            sk \in {KeyPath(D, last'.profile, "sk")} :
           /\ \A q \in (DOMAIN files \cup DOMAIN files') \ {rec, pk, sk} : Untouched(q)
           /\ dirs \subseteq dirs' /\ dirs' \subseteq dirs \cup {D}
           /\ res = ProfileAlreadyExists => (files' = files /\ dirs' = dirs)
           /\ FailedAt(res, "Initialization failed while creating storage for files")
              => (res = StorageCreationFailed /\ files' = files /\ dirs' = dirs)
           /\ FailedAt(res, "Could not expand storage directory")
              => (D \in dirs' /\ files' = files)
           /\ FailedAt(res, "Initialization failed while creating profile")
              => (D \in dirs' /\ Untouched(pk) /\ Untouched(sk))
           /\ (FailedAt(res, "Initialization failed while creating key pair")
                 /\ res[2] = "Could not save public key file")
              => /\ D \in dirs'
                 /\ files'[rec] = toml_to_string([name |-> last'.profile, storage |-> D])
                 /\ Untouched(sk)
           /\ SecretKeyWriteFailed(res)
              => /\ D \in dirs'
                 /\ files'[rec] = toml_to_string([name |-> last'.profile, storage |-> D])
                 /\ HoldsNewKey(pk, "pk")
           /\ IsOk(res)
              => /\ D \in dirs'
                 /\ files'[rec] = toml_to_string([name |-> last'.profile, storage |-> D])
                 /\ HoldsNewKey(pk, "pk") /\ HoldsNewKey(sk, "sk")
           /\ \/ IsOk(res) \/ res = ProfileAlreadyExists
              \/ \E m \in {"Initialization failed while creating storage for files",
                           "Could not expand storage directory",
                           "Initialization failed while creating profile",
                           "Initialization failed while creating key pair"} :
                    FailedAt(res, m)]_vars

\* init stopped at the public-key write: directory and record are there, the
\* secret key is not.
C13_Witness ==
    /\ last.op = "init"
    /\ FailedAt(last.res, "Initialization failed while creating key pair")
    /\ last.res[2] = "Could not save public key file"
    /\ Canonical(last.dir) \in dirs
    /\ HasRecord(last.profile)
    /\ KeyPath(Canonical(last.dir), last.profile, "sk") \notin DOMAIN files

\* C14 as claimed: no run of encrypt or decrypt, whatever its override flag,
\* source path and destination directory, changes the content of the profile
\* record or of the profile's two key files.
C14_ProfileReadOnly_AsClaimed ==
    [][(Call("encrypt") \/ Call("decrypt"))
          => \A p \in Profiles :
                HasRecord(p)
                => /\ Untouched(RecordPath(p))
                   /\ Untouched(KeyPath(StorageOf(p), p, "pk"))
                   /\ Untouched(KeyPath(StorageOf(p), p, "sk"))]_vars

\* C15 as claimed: encrypt never modifies or removes its plaintext source and
\* decrypt never modifies or removes its encrypted source, for every file
\* name, destination directory and override flag.
C15_SourceKept_AsClaimed ==
    [][(Call("encrypt") \/ Call("decrypt"))
          => (SourcePath(last') \in DOMAIN files => Untouched(SourcePath(last')))]_vars

\* Both init calls have returned Ok.
BothComplete == \A i \in Calls : running.call[i].pc = "done"

ConcurrentKeyPath(key) == KeyPath(Canonical(ConcurrentDir), ConcurrentProfile, key)

\* C16 as claimed: when two concurrent init calls for the same profile and
\* storage directory both complete, the .pk and .sk files are the two halves
\* of the key pair one of the two calls generated.
C16_LastWriterWins_AsClaimed ==
    BothComplete
    => \E i \in Calls : \A key \in {"pk", "sk"} :
          files[ConcurrentKeyPath(key)] = BASE64_encode(running.call[i].kp[key])

\* C16, amended: when both calls complete, each key file holds the key of the
\* call that wrote that file last; the two files need not be of the same call.
C16_LastWriterWinsPerFile ==
    BothComplete
    => \A key \in {"pk", "sk"} :
          /\ running.writer[key] \in Calls
          /\ files[ConcurrentKeyPath(key)]
               = BASE64_encode(running.call[running.writer[key]].kp[key])

C16_Witness ==
    /\ BothComplete
    /\ running.writer.pk # running.writer.sk
    /\ files[ConcurrentKeyPath("pk")].key.id # files[ConcurrentKeyPath("sk")].key.id

\* On the disk st the profile p has a complete key pair that encrypt and
\* decrypt can use: notes.txt encrypts, and its envelope decrypts to it.
Usable(st, p) ==
    \E rp \in {read_profile(st, p)} :
       /\ IsOk(rp.res)
       /\ IsOk(read_keypair(st, rp.profile).res)
       /\ read_keypair(st, rp.profile).pk.id = read_keypair(st, rp.profile).sk.id
       /\ \E e \in {encrypt(st, p, [dir |-> WorkDir, name |-> NotesTxt], TRUE,
                            nonces' + 1, "none")} :
            /\ IsOk(e.res)
            /\ \E d \in {decrypt(e.st, p,
                                 [dir |-> rp.profile.storage,
                                  name |-> Append(NotesTxt, "cz")],
                                 "out", TRUE, "none")} :
                 /\ IsOk(d.res)
                 /\ d.st.files[<<"/out", NotesTxt>>] = st.files[<<WorkDir, NotesTxt>>]

\* C17: an init that creates the storage directory and then fails at the
\* secret-key write leaves the directory, the record and the new public key
\* on disk; init with override for the same profile and directory, with no
\* failing write, then returns Ok and leaves a complete key pair that encrypt
\* and decrypt can use.
C17_NoRollbackRecoveryByOverride ==
    [][/\ (Call("init") /\ SecretKeyWriteFailed(last'.res)
              /\ Canonical(last'.dir) \notin dirs)
          => /\ Canonical(last'.dir) \in dirs'
             /\ files'[RecordPath(last'.profile)]
                  = toml_to_string([name |-> last'.profile,
                                    storage |-> Canonical(last'.dir)])
             /\ HoldsNewKey(KeyPath(Canonical(last'.dir), last'.profile, "pk"), "pk")
             /\ \E r \in {init(Disk', last'.profile, last'.dir, TRUE, keygens' + 1,
                               "none")} :
                  IsOk(r.res) /\ Usable(r.st, last'.profile)
       /\ (Call("init") /\ last'.override /\ faults' = faults
              /\ HasRecord(last'.profile)
              /\ StorageOf(last'.profile) = Canonical(last'.dir)
              /\ ~CompletePair(last'.profile))
          => (IsOk(last'.res) /\ Usable(Disk', last'.profile))]_vars

C17_Witness ==
    /\ last.op = "init" /\ SecretKeyWriteFailed(last.res)
    /\ keygens = 1 /\ faults = 1
    /\ Canonical(last.dir) \in dirs
    /\ HasRecord(last.profile)
    /\ files[KeyPath(Canonical(last.dir), last.profile, "pk")].t = "b64"
    /\ ~CompletePair(last.profile)

\* The key the profile's key files derive, on the disk as it is.
CurrentKey(p) ==
    precompute(read_keypair(Disk, read_profile(Disk, p).profile).pk,
               read_keypair(Disk, read_profile(Disk, p).profile).sk)

\* Why box_::open refuses the envelope c: it was sealed under another key
\* pair, or its ciphertext or nonce is not what seal produced.
SealedUnderOtherKey(c, p) ==
    c.data.intact /\ c.data.nonce = c.nonce /\ c.data.key # CurrentKey(p)
Corrupted(c, p) ==
    (~c.data.intact \/ c.data.nonce # c.nonce) /\ c.data.key = CurrentKey(p)

\* The same envelope, had it been sealed under the current key pair and then
\* had its ciphertext or its nonce corrupted.
CorruptedTwins(c, p) ==
    {[c EXCEPT !.data.key = CurrentKey(p), !.data.intact = FALSE],
     [c EXCEPT !.data.key = CurrentKey(p), !.nonce = Flipped(@)]}

\* C18: a decrypt that gets to box_::open on an envelope sealed under another
\* key pair and the same decrypt on the envelope corrupted instead return the
\* same error, the whole chain, and leave the same disk: the generic
\* AuthenticationFailed, with no file written and no directory created.
C18_GenericAuthenticationFailure ==
    [][(Call("decrypt") /\ DecryptReachesOpen(last')
            /\ files[SourcePath(last')].t = "bin")
          => \E c \in {files[SourcePath(last')]} :
             /\ (SealedUnderOtherKey(c, last'.profile) \/ Corrupted(c, last'.profile))
                => (last'.res = AuthenticationFailed /\ files' = files /\ dirs' = dirs)
             /\ SealedUnderOtherKey(c, last'.profile)
                => \A twin \in CorruptedTwins(c, last'.profile) :
                   \E st \in {[dirs |-> dirs,
                               files |-> [files EXCEPT ![SourcePath(last')] = twin]]} :
                   \E r \in {decrypt(st, last'.profile, FileOf(SourcePath(last')),
                                     last'.dest, last'.override, "none")} :
                      /\ r.res = last'.res
                      /\ r.st = st
                      /\ r.st.dirs = dirs'
                      /\ \A q \in DOMAIN files' :
                            q # SourcePath(last') => r.st.files[q] = files'[q]]_vars

C18_Witness ==
    /\ last.op = "decrypt" /\ last.res = AuthenticationFailed
    /\ files[SourcePath(last)] \in Written
    /\ keygens = 2
    /\ IsOk(read_keypair(Disk, read_profile(Disk, last.profile).profile).res)
    /\ SealedUnderOtherKey(files[SourcePath(last)], last.profile)
====
